---- MODULE Spec2Model ----
(***************************************************************************)
(* private-org-peribolos-sync: one run of main() as a state machine.       *)
(*   validateOptions -> ReadFile -> Unmarshal -> secret agent -> GitHub    *)
(*   client -> getReposForPrivateOrg -> generateRepositories -> merge ->   *)
(*   Marshal -> WriteFile.                                                 *)
(* Go maps are functions; a nil map is told apart from an empty one where  *)
(* the code's behaviour differs (assignment into a nil map panics).        *)
(***************************************************************************)
EXTENDS Integers, Sequences, FiniteSets, TLC

VARIABLES
    o,               \* options, as gatherOptions returned them
    pc,              \* position of main()
    exitStatus,      \* -1 while the process runs, else the exit status
    fatalMsg,        \* message of the logrus Fatal call that ended the run
    validationErr,   \* error returned by validateOptions
    file,            \* content of the file at o.peribolosConfig
    b,               \* bytes read from the file (main, line 90)
    peribolosConfig, \* org.FullConfig of main
    fileReads,       \* number of ReadFile calls so far
    fileWrites,      \* number of WriteFile calls so far
    configDir,       \* the files below the ci-operator config directory
    wlLeft,          \* whitelist organizations not yet iterated
    ret,             \* ret of getReposForPrivateOrg
    walkIdx,         \* files visited by OperateOnCIOperatorConfigDir
    scanErr,         \* getReposForPrivateOrg returned an error
    orgRepos,        \* orgRepos of main / generateRepositories
    remote,          \* what gc.GetRepo answers for each (org, repo)
    orgsLeft,        \* organizations the outer loop has still to visit
    curOrg,          \* orgName of the outer loop
    reposLeft,       \* repos the inner loop has still to visit
    lookupLog,       \* the GetRepo calls made, in order
    peribolosRepos,  \* peribolosRepos of generateRepositories / main
    out              \* marshalled document (main, line 119)

vars == <<o, pc, exitStatus, fatalMsg, validationErr, file, b, peribolosConfig,
          fileReads, fileWrites, configDir, wlLeft, ret, walkIdx, scanErr,
          orgRepos, remote, orgsLeft, curOrg, reposLeft, lookupLog,
          peribolosRepos, out>>

----------------------------------------------------------------------------
(* Bounds and universes                                                    *)

MaxWhitelistLen == 2
MaxFiles == 2

Orgs == {"orgA", "orgB"}
Repos == {"repo1", "repo2"}
DestOrg == "private"
OtherOrg == "other"
NoOrg == ""

EmptyMap == [x \in {} |-> x]

RECURSIVE SeqsUpTo(_, _)
SeqsUpTo(S, n) ==
    IF n = 0 THEN {<<>>}
    ELSE LET shorter == SeqsUpTo(S, n - 1)
         IN shorter \cup {Append(s, x) : s \in {t \in shorter : Len(t) = n - 1}, x \in S}

Range(s) == {s[i] : i \in DOMAIN s}

\* every (org, repo) pair of a map from organization to set of repos
PairsOf(m) == {p \in Orgs \X Repos : p[1] \in DOMAIN m /\ p[2] \in m[p[1]]}

\* every (org, repo) pair of a whitelist (organization to list of repos)
WhitelistPairs(w) == {p \in Orgs \X Repos : p[1] \in DOMAIN w /\ p[2] \in Range(w[p[1]])}

----------------------------------------------------------------------------
(* Options and validateOptions                                             *)

ErrReleaseRepoPath == "--release-repo-path is not specified"
ErrPeribolosConfig == "--peribolos-config is not specified"
ErrDestOrg == "--destination-org is not specified"
ErrGitHub == "github options invalid"
ErrWhitelist == "whitelist options invalid"

NilError == [isNil |-> TRUE, errs |-> <<>>]

\* kerrors.NewAggregate: nil for an empty list, else one error holding all
NewAggregate(errlist) ==
    IF Len(errlist) = 0 THEN NilError ELSE [isNil |-> FALSE, errs |-> errlist]

validateOptionsDropsDestOrg(opts) ==
    NewAggregate(
        (IF opts.releaseRepoPath = "" THEN <<ErrReleaseRepoPath>> ELSE <<>>)
        \o (IF opts.peribolosConfig = "" THEN <<ErrPeribolosConfig>> ELSE <<>>)
        \o (IF opts.githubErr THEN <<ErrGitHub>> ELSE <<>>)
        \o (IF opts.whitelistErr THEN <<ErrWhitelist>> ELSE <<>>))

validateOptions(opts) ==
    NewAggregate(
        (IF opts.releaseRepoPath = "" THEN <<ErrReleaseRepoPath>> ELSE <<>>)
        \o (IF opts.peribolosConfig = "" THEN <<ErrPeribolosConfig>> ELSE <<>>)
        \o (IF opts.destOrg = "" THEN <<ErrDestOrg>> ELSE <<>>)
        \o (IF opts.githubErr THEN <<ErrGitHub>> ELSE <<>>)
        \o (IF opts.whitelistErr THEN <<ErrWhitelist>> ELSE <<>>))

----------------------------------------------------------------------------
(* getReposForPrivateOrg                                                   *)

\* lines 167-171: insert one whitelisted repo under its organization
WhitelistInsert(m, org, repo) ==
    IF org \notin DOMAIN m
    THEN m @@ (org :> {repo})
    ELSE [m EXCEPT ![org] = @ \cup {repo}]

\* lines 166-172: the inner loop over one organization's list
RECURSIVE WhitelistInsertAll(_, _, _)
WhitelistInsertAll(m, org, repos) ==
    IF repos = <<>> THEN m
    ELSE WhitelistInsertAll(WhitelistInsert(m, org, Head(repos)), org, Tail(repos))

callbackIgnoresPromotion(m, c) ==
    LET repos == IF c.org \in DOMAIN m THEN m[c.org] ELSE {}
    IN (c.org :> (repos \cup {c.repo})) @@ m

\* lines 175-187: the callback handed to OperateOnCIOperatorConfigDir
callback(m, c) ==
    IF ~c.official THEN m
    ELSE LET repos == IF c.org \in DOMAIN m THEN m[c.org] ELSE {}
         IN (c.org :> (repos \cup {c.repo})) @@ m

----------------------------------------------------------------------------
(* generateRepositories                                                    *)

\* a pointer field of org.Repo: {} is nil, {v} points to v
Ptr(v) == {v}
NilPtr == {}

\* github.FullRepo values the remote may hold
FullRepo(name, private, description) ==
    [Name |-> name, Description |-> description, Homepage |-> "",
     Private |-> private, HasIssues |-> TRUE, HasProjects |-> TRUE,
     HasWiki |-> ~private, AllowMergeCommit |-> TRUE, AllowSquashMerge |-> TRUE,
     AllowRebaseMerge |-> TRUE, Archived |-> FALSE,
     DefaultBranch |-> IF private THEN "main" ELSE "master"]

FullRepos == {FullRepo(n, FALSE, "") : n \in Repos} \cup {FullRepo(n, TRUE, "x") : n \in Repos}

\* lines 141-153: the org.Repo literal built from the lookup's answer
RepoOf(fullRepo) ==
    [Description |-> Ptr(fullRepo.Description),
     HomePage |-> Ptr(fullRepo.Homepage),
     Private |-> Ptr(fullRepo.Private),
     HasIssues |-> Ptr(fullRepo.HasIssues),
     HasProjects |-> Ptr(fullRepo.HasProjects),
     HasWiki |-> Ptr(fullRepo.HasWiki),
     AllowMergeCommit |-> Ptr(fullRepo.AllowMergeCommit),
     AllowSquashMerge |-> Ptr(fullRepo.AllowSquashMerge),
     AllowRebaseMerge |-> Ptr(fullRepo.AllowRebaseMerge),
     Archived |-> Ptr(fullRepo.Archived),
     DefaultBranch |-> Ptr(fullRepo.DefaultBranch)]

\* a pointer whose target equals the default becomes nil
Prune(p, def) == IF p = Ptr(def) THEN NilPtr ELSE p

\* org.PruneRepoDefaults
PruneRepoDefaults(repo) ==
    [Description |-> Prune(repo.Description, ""),
     HomePage |-> Prune(repo.HomePage, ""),
     Private |-> Prune(repo.Private, FALSE),
     HasIssues |-> Prune(repo.HasIssues, TRUE),
     HasProjects |-> repo.HasProjects,
     HasWiki |-> Prune(repo.HasWiki, TRUE),
     AllowMergeCommit |-> Prune(repo.AllowMergeCommit, TRUE),
     AllowSquashMerge |-> Prune(repo.AllowSquashMerge, TRUE),
     AllowRebaseMerge |-> Prune(repo.AllowRebaseMerge, TRUE),
     Archived |-> Prune(repo.Archived, FALSE),
     DefaultBranch |-> Prune(repo.DefaultBranch, "master")]

\* answers of gc.GetRepo
LookupFailed == [err |-> TRUE, repo |-> FullRepo("", FALSE, "")]
LookupOK(fullRepo) == [err |-> FALSE, repo |-> fullRepo]
Responses == {LookupFailed} \cup {LookupOK(f) : f \in FullRepos}

storeUnderQueryName(m, p, fullRepo) ==
    (p[2] :> PruneRepoDefaults(RepoOf(fullRepo))) @@ m

\* line 141: peribolosRepos[fullRepo.Name] = org.PruneRepoDefaults(...)
\* (p is the pair the lookup was made with)
store(m, p, fullRepo) ==
    (fullRepo.Name :> PruneRepoDefaults(RepoOf(fullRepo))) @@ m

\* the pairs the two nested range loops may visit next (lines 132-133)
NextPairs ==
    IF reposLeft # {}
    THEN {<<curOrg, r>> : r \in reposLeft}
    ELSE {q \in Orgs \X Repos : q[1] \in orgsLeft /\ q[2] \in orgRepos[q[1]]}

\* the loop variables after pair p was taken
Advance(p) ==
    IF reposLeft # {}
    THEN /\ reposLeft' = reposLeft \ {p[2]}
         /\ UNCHANGED <<curOrg, orgsLeft>>
    ELSE /\ curOrg' = p[1]
         /\ orgsLeft' = orgsLeft \ {p[1]}
         /\ reposLeft' = orgRepos[p[1]] \ {p[2]}

----------------------------------------------------------------------------
(* The configuration document                                              *)

ZeroOther == "zero"
ZeroConfig == [repos |-> EmptyMap, other |-> ZeroOther]

OldRepos == ("legacy" :> PruneRepoDefaults(RepoOf(FullRepo("legacy", TRUE, "x"))))

Configs == {[repos |-> r, other |-> x] :
                r \in {EmptyMap, OldRepos}, x \in {ZeroOther, "admins and teams"}}

OrgMaps == UNION {[K -> Configs] : K \in SUBSET {DestOrg, OtherOrg}}

NoBytes == [kind |-> "none", hasOrgs |-> FALSE, orgs |-> EmptyMap]
Malformed == [kind |-> "malformed", hasOrgs |-> FALSE, orgs |-> EmptyMap]
Truncated == [kind |-> "truncated", hasOrgs |-> FALSE, orgs |-> EmptyMap]
Yaml(hasOrgs, orgs) == [kind |-> "yaml", hasOrgs |-> hasOrgs, orgs |-> orgs]

\* a well-formed file either has no orgs key or has one with any entries
FileContents ==
    {Malformed, Yaml(FALSE, EmptyMap)} \cup {Yaml(TRUE, m) : m \in OrgMaps}

ZeroFullConfig == [orgsNil |-> TRUE, orgs |-> EmptyMap]

\* yaml.Unmarshal into org.FullConfig: a document without an orgs key
\* leaves the Orgs map nil
Unmarshal(bytes) ==
    IF bytes.kind # "yaml"
    THEN [err |-> TRUE, cfg |-> ZeroFullConfig]
    ELSE [err |-> FALSE, cfg |-> [orgsNil |-> ~bytes.hasOrgs, orgs |-> bytes.orgs]]

\* yaml.Marshal of org.FullConfig: orgs is omitted when the map is empty
Marshal(cfg) == Yaml(DOMAIN cfg.orgs # {}, cfg.orgs)

mergeUnion(cfg, destOrg, repos) ==
    LET byOrg == IF destOrg \in DOMAIN cfg.orgs THEN cfg.orgs[destOrg] ELSE ZeroConfig
    IN [cfg EXCEPT !.orgs = (destOrg :> [byOrg EXCEPT !.repos = repos @@ byOrg.repos]) @@ cfg.orgs]

mergeFreshEntry(cfg, destOrg, repos) ==
    [cfg EXCEPT !.orgs = (destOrg :> [ZeroConfig EXCEPT !.repos = repos])]

\* lines 115-117 on a non-nil Orgs map
merge(cfg, destOrg, repos) ==
    LET peribolosConfigByOrg ==
            IF destOrg \in DOMAIN cfg.orgs THEN cfg.orgs[destOrg] ELSE ZeroConfig
    IN [cfg EXCEPT !.orgs = (destOrg :> [peribolosConfigByOrg EXCEPT !.repos = repos])
                                @@ cfg.orgs]

----------------------------------------------------------------------------
(* Inputs                                                                  *)

\* one file of the ci-operator configuration directory: a build
\* configuration with its org/repo, or a file that does not load
ConfigFile(org, repo, official) ==
    [broken |-> FALSE, org |-> org, repo |-> repo, official |-> official]
BrokenFile == [broken |-> TRUE, org |-> NoOrg, repo |-> "", official |-> FALSE]
ConfigFiles == {ConfigFile(org, repo, x) : org \in Orgs, repo \in Repos, x \in BOOLEAN}
                   \cup {BrokenFile}

ConfigDirs == SeqsUpTo(ConfigFiles, MaxFiles)

Whitelists == UNION {[K -> SeqsUpTo(Repos, MaxWhitelistLen)] : K \in SUBSET Orgs}

\* maps from organization to a non-empty set of repos
OrgRepoSets == UNION {[K -> (SUBSET Repos) \ {{}}] : K \in SUBSET Orgs}

Remotes == [Orgs \X Repos -> Responses]

Options(wl) ==
    [releaseRepoPath : {"", "/release"}, peribolosConfig : {"", "org.yaml"},
     destOrg : {"", DestOrg}, githubErr : BOOLEAN, whitelistErr : BOOLEAN,
     whitelist : wl]

ValidOptions(wl) ==
    {x \in Options(wl) : validateOptions(x).isNil}

\* the inputs of the whole-run specification
RunWhitelists ==
    {EmptyMap, ("orgA" :> <<"repo1">>),
     ("orgA" :> <<"repo1", "repo1">>) @@ ("orgB" :> <<"repo1">>)}

RunConfigDirs ==
    {<<>>, <<ConfigFile("orgB", "repo2", TRUE)>>,
     <<ConfigFile("orgA", "repo2", FALSE), BrokenFile>>}

\* every repo answers under its own name, private in orgB
RemoteSameName ==
    [p \in Orgs \X Repos |-> LookupOK(FullRepo(p[2], p[1] = "orgB", IF p[1] = "orgB" THEN "x" ELSE ""))]
\* orgB/repo2 was renamed to repo1
RemoteRenamed ==
    [RemoteSameName EXCEPT ![<<"orgB", "repo2">>] = LookupOK(FullRepo("repo1", TRUE, "x"))]
\* orgA/repo1 cannot be looked up
RemoteFailing ==
    [RemoteSameName EXCEPT ![<<"orgA", "repo1">>] = LookupFailed]

RunRemotes == {RemoteSameName, RemoteRenamed, RemoteFailing}

----------------------------------------------------------------------------
(* Initial states                                                          *)

Fresh ==
    /\ exitStatus = -1
    /\ fatalMsg = ""
    /\ validationErr = NilError
    /\ b = NoBytes
    /\ peribolosConfig = ZeroFullConfig
    /\ fileReads = 0
    /\ fileWrites = 0
    /\ ret = EmptyMap
    /\ walkIdx = 0
    /\ scanErr = FALSE
    /\ orgRepos = EmptyMap
    /\ orgsLeft = {}
    /\ curOrg = NoOrg
    /\ reposLeft = {}
    /\ lookupLog = <<>>
    /\ peribolosRepos = EmptyMap
    /\ out = NoBytes

\* the process was started: any options, any file, any directory, any remote
Init ==
    /\ pc = "start"
    /\ o \in Options(RunWhitelists)
    /\ file \in FileContents
    /\ configDir \in RunConfigDirs
    /\ remote \in RunRemotes
    /\ wlLeft = {}
    /\ Fresh

\* getReposForPrivateOrg was just entered (line 163)
InitScan ==
    /\ pc = "scan"
    /\ o \in ValidOptions(Whitelists)
    /\ file = Yaml(FALSE, EmptyMap)
    /\ configDir \in ConfigDirs
    /\ remote = RemoteSameName
    /\ wlLeft = DOMAIN o.whitelist
    /\ Fresh

\* generateRepositories was just entered (line 130)
InitFetch ==
    /\ pc = "fetch"
    /\ o \in ValidOptions({EmptyMap})
    /\ file = Yaml(FALSE, EmptyMap)
    /\ configDir = <<>>
    /\ remote \in Remotes
    /\ wlLeft = {}
    /\ exitStatus = -1
    /\ fatalMsg = ""
    /\ validationErr = NilError
    /\ b = NoBytes
    /\ peribolosConfig = ZeroFullConfig
    /\ fileReads = 0
    /\ fileWrites = 0
    /\ walkIdx = 0
    /\ scanErr = FALSE
    /\ orgRepos \in OrgRepoSets
    /\ ret = orgRepos
    /\ orgsLeft = DOMAIN orgRepos
    /\ curOrg = NoOrg
    /\ reposLeft = {}
    /\ lookupLog = <<>>
    /\ peribolosRepos = EmptyMap
    /\ out = NoBytes

----------------------------------------------------------------------------
(* Actions                                                                 *)

\* logrus Fatal: log the message, exit with status 1
Fatal(msg) ==
    /\ pc' = "fatal"
    /\ exitStatus' = 1
    /\ fatalMsg' = msg

\* lines 78-82
ValidateOptions ==
    /\ pc = "start"
    /\ validationErr' = validateOptions(o)
    /\ IF validationErr'.isNil
       THEN pc' = "read" /\ UNCHANGED <<exitStatus, fatalMsg>>
       ELSE Fatal("invalid options")
    /\ UNCHANGED <<o, file, b, peribolosConfig, fileReads, fileWrites, configDir,
                   wlLeft, ret, walkIdx, scanErr, orgRepos, remote, orgsLeft,
                   curOrg, reposLeft, lookupLog, peribolosRepos, out>>

\* lines 85-88: the shutdown watcher ends the process when it is signalled
Interrupt ==
    /\ pc \notin {"start", "done", "fatal", "panic", "interrupted"}
    /\ pc' = "interrupted"
    /\ exitStatus' = 1
    /\ UNCHANGED <<o, fatalMsg, validationErr, file, b, peribolosConfig, fileReads,
                   fileWrites, configDir, wlLeft, ret, walkIdx, scanErr, orgRepos,
                   remote, orgsLeft, curOrg, reposLeft, lookupLog, peribolosRepos,
                   out>>

\* lines 90-93
ReadFile ==
    /\ pc = "read"
    /\ fileReads' = fileReads + 1
    /\ \E ok \in BOOLEAN :
          IF ok
          THEN b' = file /\ pc' = "unmarshal" /\ UNCHANGED <<exitStatus, fatalMsg>>
          ELSE b' = b /\ Fatal("could not read peribolos configuration file")
    /\ UNCHANGED <<o, validationErr, file, peribolosConfig, fileWrites, configDir,
                   wlLeft, ret, walkIdx, scanErr, orgRepos, remote, orgsLeft,
                   curOrg, reposLeft, lookupLog, peribolosRepos, out>>

\* lines 95-98
UnmarshalConfig ==
    /\ pc = "unmarshal"
    /\ IF Unmarshal(b).err
       THEN /\ Fatal("failed to unmarshal peribolos config")
            /\ UNCHANGED peribolosConfig
       ELSE /\ peribolosConfig' = Unmarshal(b).cfg
            /\ pc' = "secret"
            /\ UNCHANGED <<exitStatus, fatalMsg>>
    /\ UNCHANGED <<o, validationErr, file, b, fileReads, fileWrites, configDir,
                   wlLeft, ret, walkIdx, scanErr, orgRepos, remote, orgsLeft,
                   curOrg, reposLeft, lookupLog, peribolosRepos, out>>

\* lines 100-103
StartSecretAgent ==
    /\ pc = "secret"
    /\ \E ok \in BOOLEAN :
          IF ok
          THEN pc' = "client" /\ UNCHANGED <<exitStatus, fatalMsg>>
          ELSE Fatal("Error starting secrets agent.")
    /\ UNCHANGED <<o, validationErr, file, b, peribolosConfig, fileReads, fileWrites,
                   configDir, wlLeft, ret, walkIdx, scanErr, orgRepos, remote,
                   orgsLeft, curOrg, reposLeft, lookupLog, peribolosRepos, out>>

\* lines 104-107, and the entry of getReposForPrivateOrg (lines 109, 163)
GitHubClient ==
    /\ pc = "client"
    /\ \E ok \in BOOLEAN :
          IF ok
          THEN /\ pc' = "scan"
               /\ ret' = EmptyMap
               /\ wlLeft' = DOMAIN o.whitelist
               /\ UNCHANGED <<exitStatus, fatalMsg>>
          ELSE /\ Fatal("Error getting GitHub client.")
               /\ UNCHANGED <<ret, wlLeft>>
    /\ UNCHANGED <<o, validationErr, file, b, peribolosConfig, fileReads, fileWrites,
                   configDir, walkIdx, scanErr, orgRepos, remote, orgsLeft, curOrg,
                   reposLeft, lookupLog, peribolosRepos, out>>

\* lines 165-173: one iteration of the loop over the whitelist map
WhitelistOrg ==
    /\ pc = "scan"
    /\ \E org \in wlLeft :
          /\ ret' = WhitelistInsertAll(ret, org, o.whitelist[org])
          /\ wlLeft' = wlLeft \ {org}
    /\ UNCHANGED <<o, pc, exitStatus, fatalMsg, validationErr, file, b,
                   peribolosConfig, fileReads, fileWrites, configDir, walkIdx,
                   scanErr, orgRepos, remote, orgsLeft, curOrg, reposLeft,
                   lookupLog, peribolosRepos, out>>

\* line 189: the walk loads the next file and calls the callback on it
Callback ==
    /\ pc = "scan"
    /\ wlLeft = {}
    /\ walkIdx < Len(configDir)
    /\ ~configDir[walkIdx + 1].broken
    /\ ret' = callback(ret, configDir[walkIdx + 1])
    /\ walkIdx' = walkIdx + 1
    /\ UNCHANGED <<o, pc, exitStatus, fatalMsg, validationErr, file, b,
                   peribolosConfig, fileReads, fileWrites, configDir, wlLeft,
                   scanErr, orgRepos, remote, orgsLeft, curOrg, reposLeft,
                   lookupLog, peribolosRepos, out>>

\* lines 189-191 and 109-112: the walk fails on the next file; the function
\* returns ret with the error and main ends the run
WalkError ==
    /\ pc = "scan"
    /\ wlLeft = {}
    /\ walkIdx < Len(configDir)
    /\ configDir[walkIdx + 1].broken
    /\ orgRepos' = ret
    /\ scanErr' = TRUE
    /\ Fatal("couldn't get the list of org/repos that promote official images")
    /\ UNCHANGED <<o, validationErr, file, b, peribolosConfig, fileReads, fileWrites,
                   configDir, wlLeft, ret, walkIdx, remote, orgsLeft, curOrg,
                   reposLeft, lookupLog, peribolosRepos, out>>

\* lines 193, 109 and 114, 130: the walk is over; the function returns ret
\* and generateRepositories is entered with it
WalkDone ==
    /\ pc = "scan"
    /\ wlLeft = {}
    /\ walkIdx = Len(configDir)
    /\ orgRepos' = ret
    /\ pc' = "fetch"
    /\ orgsLeft' = DOMAIN ret
    /\ curOrg' = NoOrg
    /\ reposLeft' = {}
    /\ peribolosRepos' = EmptyMap
    /\ UNCHANGED <<o, exitStatus, fatalMsg, validationErr, file, b, peribolosConfig,
                   fileReads, fileWrites, configDir, wlLeft, ret, walkIdx, scanErr,
                   remote, lookupLog, out>>

\* lines 133-153: one loop iteration whose lookup succeeds
GetRepoOK ==
    /\ pc = "fetch"
    /\ \E p \in NextPairs :
          /\ ~remote[p].err
          /\ Advance(p)
          /\ lookupLog' = Append(lookupLog, p)
          /\ peribolosRepos' = store(peribolosRepos, p, remote[p].repo)
    /\ UNCHANGED <<o, pc, exitStatus, fatalMsg, validationErr, file, b,
                   peribolosConfig, fileReads, fileWrites, configDir, wlLeft, ret,
                   walkIdx, scanErr, orgRepos, remote, out>>

GetRepoFailLogsAndContinues ==
    /\ pc = "fetch"
    /\ \E p \in NextPairs :
          /\ remote[p].err
          /\ Advance(p)
          /\ lookupLog' = Append(lookupLog, p)
    /\ UNCHANGED <<o, pc, exitStatus, fatalMsg, validationErr, file, b,
                   peribolosConfig, fileReads, fileWrites, configDir, wlLeft, ret,
                   walkIdx, scanErr, orgRepos, remote, peribolosRepos, out>>

\* lines 133-139: one loop iteration whose lookup fails
GetRepoFail ==
    /\ pc = "fetch"
    /\ \E p \in NextPairs :
          /\ remote[p].err
          /\ Advance(p)
          /\ lookupLog' = Append(lookupLog, p)
    /\ Fatal("couldn't get repo details")
    /\ UNCHANGED <<o, validationErr, file, b, peribolosConfig, fileReads, fileWrites,
                   configDir, wlLeft, ret, walkIdx, scanErr, orgRepos, remote,
                   peribolosRepos, out>>

\* line 157: both loops are over
GenerateRepositoriesReturn ==
    /\ pc = "fetch"
    /\ NextPairs = {}
    /\ pc' = "merge"
    /\ UNCHANGED <<o, exitStatus, fatalMsg, validationErr, file, b, peribolosConfig,
                   fileReads, fileWrites, configDir, wlLeft, ret, walkIdx, scanErr,
                   orgRepos, remote, orgsLeft, curOrg, reposLeft, lookupLog,
                   peribolosRepos, out>>

\* lines 115-117: assignment into a nil Orgs map is a runtime panic
MergeRepos ==
    /\ pc = "merge"
    /\ IF peribolosConfig.orgsNil
       THEN /\ pc' = "panic"
            /\ exitStatus' = 2
            /\ UNCHANGED peribolosConfig
       ELSE /\ peribolosConfig' = merge(peribolosConfig, o.destOrg, peribolosRepos)
            /\ pc' = "marshal"
            /\ UNCHANGED exitStatus
    /\ UNCHANGED <<o, fatalMsg, validationErr, file, b, fileReads, fileWrites,
                   configDir, wlLeft, ret, walkIdx, scanErr, orgRepos, remote,
                   orgsLeft, curOrg, reposLeft, lookupLog, peribolosRepos, out>>

\* lines 119-122
MarshalConfig ==
    /\ pc = "marshal"
    /\ \E ok \in BOOLEAN :
          IF ok
          THEN /\ out' = Marshal(peribolosConfig)
               /\ pc' = "write"
               /\ UNCHANGED <<exitStatus, fatalMsg>>
          ELSE /\ out' = out
               /\ Fatal("failed to marshal output.")
    /\ UNCHANGED <<o, validationErr, file, b, peribolosConfig, fileReads, fileWrites,
                   configDir, wlLeft, ret, walkIdx, scanErr, orgRepos, remote,
                   orgsLeft, curOrg, reposLeft, lookupLog, peribolosRepos>>

WriteFileRetries ==
    /\ pc = "write"
    /\ fileWrites < 3
    /\ fileWrites' = fileWrites + 1
    /\ \E outcome \in {"written", "write failed"} :
          IF outcome = "written"
          THEN /\ file' = out
               /\ pc' = "done"
               /\ exitStatus' = 0
          ELSE /\ file' = Truncated
               /\ UNCHANGED <<pc, exitStatus>>
    /\ UNCHANGED <<o, fatalMsg, validationErr, b, peribolosConfig, fileReads,
                   configDir, wlLeft, ret, walkIdx, scanErr, orgRepos, remote,
                   orgsLeft, curOrg, reposLeft, lookupLog, peribolosRepos, out>>

\* lines 124-127: WriteFile truncates the file when it opens it, so a failed
\* write leaves the old content (open failed) or a cut one; main returns
\* after a successful write
WriteFile ==
    /\ pc = "write"
    /\ fileWrites' = fileWrites + 1
    /\ \E outcome \in {"written", "open failed", "write failed"} :
          IF outcome = "written"
          THEN /\ file' = out
               /\ pc' = "done"
               /\ exitStatus' = 0
               /\ UNCHANGED fatalMsg
          ELSE /\ file' = IF outcome = "open failed" THEN file ELSE Truncated
               /\ Fatal("Failed to write output.")
    /\ UNCHANGED <<o, validationErr, b, peribolosConfig, fileReads, configDir,
                   wlLeft, ret, walkIdx, scanErr, orgRepos, remote, orgsLeft, curOrg,
                   reposLeft, lookupLog, peribolosRepos, out>>

Next ==
    \/ ValidateOptions
    \/ Interrupt
    \/ ReadFile
    \/ UnmarshalConfig
    \/ StartSecretAgent
    \/ GitHubClient
    \/ WhitelistOrg
    \/ Callback
    \/ WalkError
    \/ WalkDone
    \/ GetRepoOK
    \/ GetRepoFail
    \/ GenerateRepositoriesReturn
    \/ MergeRepos
    \/ MarshalConfig
    \/ WriteFile

NextScan == WhitelistOrg \/ Callback \/ WalkError \/ WalkDone

NextFetch == GetRepoOK \/ GetRepoFail \/ GenerateRepositoriesReturn

Spec == Init /\ [][Next]_vars
SpecScan == InitScan /\ [][NextScan]_vars
SpecFetch == InitFetch /\ [][NextFetch]_vars

----------------------------------------------------------------------------
(* Properties                                                              *)

\* the pairs of the scanned configurations that build official images
QualifyingPairs ==
    {<<c.org, c.repo>> : c \in {d \in Range(configDir) : ~d.broken /\ d.official}}

\* C1: on a successful walk getReposForPrivateOrg returns exactly the union
\* of the whitelist's pairs and the pairs of the scanned configurations that
\* build official images; no organization is left with an empty set, and a
\* pair none of whose configurations builds official images is there only
\* if the whitelist holds it.
C1_ScanIsUnion ==
    (pc = "fetch" /\ ~scanErr) =>
        /\ PairsOf(orgRepos) = WhitelistPairs(o.whitelist) \cup QualifyingPairs
        /\ DOMAIN orgRepos = {p[1] : p \in PairsOf(orgRepos)}
        /\ \A c \in Range(configDir) :
              (~c.broken /\ <<c.org, c.repo>> \in PairsOf(orgRepos)
                  /\ <<c.org, c.repo>> \notin QualifyingPairs)
              => <<c.org, c.repo>> \in WhitelistPairs(o.whitelist)

C1_Witness ==
    /\ pc = "fetch"
    /\ WhitelistPairs(o.whitelist) # {}
    /\ QualifyingPairs \ WhitelistPairs(o.whitelist) # {}
    /\ \E c \in Range(configDir) :
          ~c.broken /\ ~c.official /\ <<c.org, c.repo>> \notin PairsOf(orgRepos)

FailedLookups == {i \in DOMAIN lookupLog : remote[lookupLog[i]].err}

\* C2: once a GetRepo call has failed the run is in the fatal-error state
\* with a non-zero exit status, the failed call is the last call made and was
\* made once, and the output file was never written: it still holds what
\* was read.
C2_LookupFailureIsFatal ==
    FailedLookups # {} =>
        /\ pc = "fatal"
        /\ exitStatus # 0 /\ exitStatus # -1
        /\ fatalMsg = "couldn't get repo details"
        /\ FailedLookups = {Len(lookupLog)}
        /\ \A i \in DOMAIN lookupLog :
              lookupLog[i] = lookupLog[Len(lookupLog)] => i = Len(lookupLog)
        /\ fileWrites = 0
        /\ file = b

C2_Witness ==
    /\ FailedLookups # {}
    /\ Len(lookupLog) >= 2
    /\ pc = "fatal"

MergeDone == pc \in {"marshal", "write", "done"}

\* the organizations as the file that was read held them
ReadOrgs == Unmarshal(b).cfg.orgs

\* C3: after the merge, and in the written file, every organization key
\* other than the destination key is there exactly when the document read
\* had it, with the same entry.
C3_OtherOrgsUnchanged ==
    /\ MergeDone =>
          /\ DOMAIN peribolosConfig.orgs \ {o.destOrg} = DOMAIN ReadOrgs \ {o.destOrg}
          /\ \A k \in DOMAIN ReadOrgs \ {o.destOrg} :
                peribolosConfig.orgs[k] = ReadOrgs[k]
    /\ pc = "done" =>
          /\ file.kind = "yaml"
          /\ DOMAIN file.orgs \ {o.destOrg} = DOMAIN ReadOrgs \ {o.destOrg}
          /\ \A k \in DOMAIN ReadOrgs \ {o.destOrg} : file.orgs[k] = ReadOrgs[k]

C3_Witness ==
    /\ pc = "done"
    /\ OtherOrg \in DOMAIN file.orgs
    /\ file.orgs[OtherOrg].repos # EmptyMap
    /\ DestOrg \in DOMAIN ReadOrgs
    /\ file # b

\* the other fields of the destination entry as the file that was read held them
ReadOther ==
    IF o.destOrg \in DOMAIN ReadOrgs THEN ReadOrgs[o.destOrg].other ELSE ZeroOther

\* C4: after the merge, and in the written file, the destination
\* organization's repos are exactly the mapping generateRepositories
\* returned (an old repo that is not in it is gone) and its other fields
\* are those of the document read.
C4_DestReposReplaced ==
    /\ MergeDone =>
          /\ o.destOrg \in DOMAIN peribolosConfig.orgs
          /\ peribolosConfig.orgs[o.destOrg].repos = peribolosRepos
          /\ peribolosConfig.orgs[o.destOrg].other = ReadOther
    /\ pc = "done" =>
          /\ o.destOrg \in DOMAIN file.orgs
          /\ file.orgs[o.destOrg].repos = peribolosRepos
          /\ file.orgs[o.destOrg].other = ReadOther

C4_Witness ==
    /\ pc = "done"
    /\ DestOrg \in DOMAIN ReadOrgs
    /\ "legacy" \in DOMAIN ReadOrgs[DestOrg].repos
    /\ "legacy" \notin DOMAIN file.orgs[DestOrg].repos
    /\ peribolosRepos # EmptyMap
    /\ ReadOther # ZeroOther

\* C5: a run on a document without the destination key whose lookups all
\* succeeded (and that no I/O failure or signal ended) ends in success, and
\* the written file holds the destination key with the fetched repos and
\* no other field set.
C5_AbsentDestIsCreated ==
    (pc \in {"done", "panic"} /\ o.destOrg \notin DOMAIN ReadOrgs) =>
        /\ pc = "done"
        /\ exitStatus = 0
        /\ o.destOrg \in DOMAIN file.orgs
        /\ file.orgs[o.destOrg] = [repos |-> peribolosRepos, other |-> ZeroOther]

\* the messages of the checks of validateOptions that fail on o
ChecksFailed ==
    (IF o.releaseRepoPath = "" THEN {ErrReleaseRepoPath} ELSE {})
    \cup (IF o.peribolosConfig = "" THEN {ErrPeribolosConfig} ELSE {})
    \cup (IF o.destOrg = "" THEN {ErrDestOrg} ELSE {})
    \cup (IF o.githubErr THEN {ErrGitHub} ELSE {})
    \cup (IF o.whitelistErr THEN {ErrWhitelist} ELSE {})

\* C6: nothing is read, looked up or written before validateOptions ran
\* or after it returned an error; its error names every missing required
\* option (and every other failed check, nothing else), and is nil exactly
\* when no check failed.
C6_ValidationFirst ==
    /\ pc = "start" => (fileReads = 0 /\ fileWrites = 0 /\ lookupLog = <<>>)
    /\ pc # "start" =>
          /\ Range(validationErr.errs) = ChecksFailed
          /\ validationErr.isNil <=> ChecksFailed = {}
          /\ ~validationErr.isNil =>
                /\ pc = "fatal" /\ fatalMsg = "invalid options"
                /\ fileReads = 0 /\ fileWrites = 0 /\ lookupLog = <<>>

C6_Witness ==
    /\ pc = "fatal"
    /\ o.releaseRepoPath = "" /\ o.peribolosConfig = "" /\ o.destOrg = ""
    /\ Len(validationErr.errs) = 3

\* C7: when the walk fails, getReposForPrivateOrg hands its caller no
\* OrgRepoSet holding the whitelist or the pairs found before the failure.
C7_NoPartialResult ==
    scanErr => (DOMAIN orgRepos = {} /\ PairsOf(orgRepos) = {})

Terminated == pc \in {"done", "fatal", "panic", "interrupted"}

\* C8: the file is read at most once and written at most once; a write
\* happens only after the document was read and parsed and every pair of
\* the OrgRepoSet was looked up successfully; the run is in the success
\* state, with exit status 0, only after that one write completed; and a
\* run that ended is either in the success state or was aborted with a
\* non-zero exit status.
C8_WrittenOnceAtEnd ==
    /\ fileReads <= 1 /\ fileWrites <= 1
    /\ fileWrites = 1 =>
          /\ fileReads = 1 /\ b.kind = "yaml"
          /\ ~scanErr
          /\ Range(lookupLog) = PairsOf(orgRepos)
          /\ Len(lookupLog) = Cardinality(PairsOf(orgRepos))
          /\ FailedLookups = {}
          /\ Terminated
    /\ (pc = "done" \/ exitStatus = 0) =>
          (pc = "done" /\ exitStatus = 0 /\ fileWrites = 1 /\ file = out)
    /\ Terminated <=> exitStatus # -1
    /\ Terminated => (pc = "done" \/ exitStatus \in {1, 2})

C8_Witness ==
    /\ pc = "done"
    /\ fileWrites = 1
    /\ Len(lookupLog) >= 2
    /\ file # b

\* C9: when generateRepositories returns, its keys are the names the
\* lookups of the pairs returned, and the record under a key is the pruned
\* org.Repo of a lookup answer that carried that name.
C9_KeyedByReturnedName ==
    pc = "merge" =>
        /\ DOMAIN peribolosRepos = {remote[p].repo.Name : p \in PairsOf(orgRepos)}
        /\ \A k \in DOMAIN peribolosRepos :
              \E p \in PairsOf(orgRepos) :
                  /\ remote[p].repo.Name = k
                  /\ peribolosRepos[k] = PruneRepoDefaults(RepoOf(remote[p].repo))

C9_Witness ==
    /\ pc = "merge"
    /\ \E p \in PairsOf(orgRepos) :
          /\ remote[p].repo.Name # p[2]
          /\ p[2] \notin DOMAIN peribolosRepos

\* the orders in which the nested range loops (lines 132-133) can visit the
\* pairs of m: any order of the organizations, any order within each
IterationOrders(m) ==
    LET P == PairsOf(m)
        n == Cardinality(P)
    IN {s \in [1..n -> P] :
           /\ \A i, j \in 1..n : s[i] = s[j] => i = j
           /\ \A i, j, k \in 1..n : (i < j /\ j < k /\ s[i][1] = s[k][1]) => s[j][1] = s[i][1]}

\* generateRepositories over a given visiting order, all lookups succeeding
RECURSIVE generateRepositoriesIn(_, _, _)
generateRepositoriesIn(m, order, i) ==
    IF i > Len(order) THEN m
    ELSE generateRepositoriesIn(store(m, order[i], remote[order[i]].repo), order, i + 1)

\* C10: the mapping generateRepositories returns is the one it returns
\* for every order in which the pairs can be visited.
C10_OrderIndependent ==
    pc = "merge" =>
        \A order \in IterationOrders(orgRepos) :
            generateRepositoriesIn(EmptyMap, order, 1) = peribolosRepos

====
